---- MODULE Spec2Model ----
(***************************************************************************)
(* Model of LLSparseMatrix<int> (SparseMatrices/LLSparseMatrix.h, the      *)
(* current variant, lines 1-527): a sparse matrix stored as a singly       *)
(* linked chain of (row, col, value) nodes kept in row-major order.        *)
(*                                                                         *)
(* A matrix object is a record of its four fields.  The chain reachable    *)
(* from firstNode is a sequence of nodes, nullptr being the empty          *)
(* sequence.  Every method is an operator from the object (and the         *)
(* arguments) to an outcome: whether it threw, what it returned and the    *)
(* object afterwards.  The actions call the methods on the objects of a    *)
(* scenario and record the last call.                                      *)
(***************************************************************************)
EXTENDS Integers, Sequences, FiniteSets, TLC

\* Largest extent of the matrix `mat` (constructor and Resize arguments).
MaxDim == 2
\* Cap of nonZeroElementsCount of `mat` (the counter grows on every overwrite).
MaxCount == 5
\* Largest extent of the operands mat0, mat1 of Multiply.
MaxMulDim == 2
\* Cap of nonZeroElementsCount of the operands mat0, mat1.
MaxMulCount == 4

\* T(), the value of a cell that holds no node (T = int).
TZero == 0

\* Values passed to SetElement on `mat`, and on the operands of Multiply.
Values == {TZero, 1, 2}
MulValues == {TZero, 1, 0 - 1}
\* Arguments of the constructor and of Resize; row and column arguments
\* (negative, in bounds, and equal to the largest extent).
CtorArgs == (0 - 1)..MaxDim
Coords == (0 - 1)..MaxDim
MulDims == 0..MaxMulDim
MulCoords == 0..(MaxMulDim - 1)

VARIABLES mat, call, mat0, mat1, resultMat, everSet, list

vars == <<mat, call, mat0, mat1, resultMat, everSet, list>>

----------------------------------------------------------------------------
(* Objects *)

MatrixNode(row, col, val) == [row |-> row, col |-> col, value |-> val]

LLSparseMatrix(rows, cols) ==
    [rowCount |-> rows, colCount |-> cols,
     nonZeroElementsCount |-> 0, firstNode |-> <<>>]

\* Outcome of a method call: an exception leaves the object as it was.
Throw(m) == [threw |-> TRUE, ret |-> TZero, found |-> FALSE, mat |-> m]
Return(m, ret, found) == [threw |-> FALSE, ret |-> ret, found |-> found, mat |-> m]

\* Mutant of InBoundaries: the lower bounds are not tested.
InBoundariesNoLowerBound(m, row, col) ==
    row < m.rowCount /\ col < m.colCount

InBoundaries(m, row, col) ==
    (row < m.rowCount /\ row >= 0) /\ (col < m.colCount /\ col >= 0)

GetPosition(m, row, col) == m.colCount * row + col

GetNonZeroElementsCount(m) == m.nonZeroElementsCount
GetRowCount(m) == m.rowCount
GetColCount(m) == m.colCount

----------------------------------------------------------------------------
(* ElementAt *)

\* Mutant of ElementAtScan: a node of the row is taken for the cell.
RECURSIVE ElementAtScanRowOnly(_, _, _, _)
ElementAtScanRowOnly(chain, i, row, col) ==
    IF i > Len(chain) THEN TZero
    ELSE IF chain[i].row = row THEN chain[i].value
    ELSE ElementAtScanRowOnly(chain, i + 1, row, col)

RECURSIVE ElementAtScan(_, _, _, _)
ElementAtScan(chain, i, row, col) ==
    IF i > Len(chain) THEN TZero
    ELSE IF chain[i].row = row /\ chain[i].col = col THEN chain[i].value
    ELSE ElementAtScan(chain, i + 1, row, col)

ElementAt(m, row, col) ==
    IF ~InBoundaries(m, row, col) THEN Throw(m)
    ELSE Return(m, ElementAtScan(m.firstNode, 1, row, col), FALSE)

----------------------------------------------------------------------------
(* SetElement *)

\* Mutant of InsertBefore: the new node goes to the end of the chain.
InsertAtEnd(chain, i, node) == Append(chain, node)

InsertBefore(chain, i, node) ==
    SubSeq(chain, 1, i - 1) \o <<node>> \o SubSeq(chain, i, Len(chain))

\* Mutant of SetElementScan: a node found at (row, col) keeps its old value.
RECURSIVE SetElementScanKeepsOld(_, _, _, _, _, _)
SetElementScanKeepsOld(m, chain, i, row, col, val) ==
    IF i > Len(chain) THEN Append(chain, MatrixNode(row, col, val))
    ELSE IF chain[i].row = row /\ chain[i].col = col THEN chain
    ELSE IF GetPosition(m, row, col) < GetPosition(m, chain[i].row, chain[i].col)
         THEN InsertBefore(chain, i, MatrixNode(row, col, val))
    ELSE SetElementScanKeepsOld(m, chain, i + 1, row, col, val)

RECURSIVE SetElementScan(_, _, _, _, _, _)
SetElementScan(m, chain, i, row, col, val) ==
    IF i > Len(chain) THEN Append(chain, MatrixNode(row, col, val))
    ELSE IF chain[i].row = row /\ chain[i].col = col
         THEN [chain EXCEPT ![i].value = val]
    ELSE IF GetPosition(m, row, col) < GetPosition(m, chain[i].row, chain[i].col)
         THEN InsertBefore(chain, i, MatrixNode(row, col, val))
    ELSE SetElementScan(m, chain, i + 1, row, col, val)

\* Mutant of SetElement: a zero value is stored like any other.
SetElementStoresZero(m, row, col, val) ==
    IF ~InBoundaries(m, row, col) THEN Throw(m)
    ELSE Return([m EXCEPT
                   !.nonZeroElementsCount = @ + 1,
                   !.firstNode = IF m.firstNode = <<>>
                                 THEN <<MatrixNode(row, col, val)>>
                                 ELSE SetElementScan(m, m.firstNode, 1, row, col, val)],
                TZero, FALSE)

SetElement(m, row, col, val) ==
    IF ~InBoundaries(m, row, col) THEN Throw(m)
    ELSE IF val = TZero THEN Return(m, TZero, FALSE)
    ELSE Return([m EXCEPT
                   !.nonZeroElementsCount = @ + 1,
                   !.firstNode = IF m.firstNode = <<>>
                                 THEN <<MatrixNode(row, col, val)>>
                                 ELSE SetElementScan(m, m.firstNode, 1, row, col, val)],
                TZero, FALSE)

----------------------------------------------------------------------------
(* RemoveElement *)

\* Index of the first node at (row, col), 0 when the loop ends without one.
RECURSIVE RemoveElementScan(_, _, _, _)
RemoveElementScan(chain, i, row, col) ==
    IF i > Len(chain) THEN 0
    ELSE IF chain[i].row = row /\ chain[i].col = col THEN i
    ELSE RemoveElementScan(chain, i + 1, row, col)

\* Mutant of Unlink: the chain is cut at the removed node.
UnlinkTruncates(chain, i) == SubSeq(chain, 1, i - 1)

Unlink(chain, i) == SubSeq(chain, 1, i - 1) \o SubSeq(chain, i + 1, Len(chain))

RemoveElement(m, row, col) ==
    IF ~InBoundaries(m, row, col) THEN Throw(m)
    ELSE LET i == RemoveElementScan(m.firstNode, 1, row, col)
         IN  IF i = 0 THEN Return(m, TZero, FALSE)
             ELSE Return([m EXCEPT !.firstNode = Unlink(m.firstNode, i),
                                   !.nonZeroElementsCount = @ - 1],
                         TZero, TRUE)

----------------------------------------------------------------------------
(* Resize *)

\* Mutant of Resize: the extents are assigned without the test.
ResizeUnchecked(m, rows, cols) ==
    Return([m EXCEPT !.rowCount = rows, !.colCount = cols], TZero, FALSE)

\* Mutant of Resize: rejected only when both extents shrink.
ResizeBothShrink(m, rows, cols) ==
    IF rows < m.rowCount /\ cols < m.colCount THEN Throw(m)
    ELSE Return([m EXCEPT !.rowCount = rows, !.colCount = cols], TZero, FALSE)

\* Mutant of Resize: colCount is assigned from rows.
ResizeColsFromRows(m, rows, cols) ==
    IF rows < m.rowCount \/ cols < m.colCount THEN Throw(m)
    ELSE Return([m EXCEPT !.rowCount = rows, !.colCount = rows], TZero, FALSE)

Resize(m, rows, cols) ==
    IF rows < m.rowCount \/ cols < m.colCount THEN Throw(m)
    ELSE Return([m EXCEPT !.rowCount = rows, !.colCount = cols], TZero, FALSE)

----------------------------------------------------------------------------
(* Print *)

\* The inner loop of Print over the columns of row i: the line so far and
\* the node pointer (an index past the chain stands for nullptr).
RECURSIVE PrintRow(_, _, _, _, _)
PrintRow(m, i, j, node, line) ==
    IF ~(j < m.colCount) THEN [line |-> line, node |-> node]
    ELSE IF node <= Len(m.firstNode)
            /\ m.firstNode[node].row = i /\ m.firstNode[node].col = j
         THEN PrintRow(m, i, j + 1, node + 1, Append(line, m.firstNode[node].value))
    ELSE PrintRow(m, i, j + 1, node, Append(line, TZero))

\* The outer loop of Print over the rows: the lines written and the node
\* pointer at the end.
RECURSIVE PrintRows(_, _, _, _)
PrintRows(m, i, node, lines) ==
    IF ~(i < m.rowCount) THEN [lines |-> lines, node |-> node]
    ELSE LET row == PrintRow(m, i, 0, node, <<>>)
         IN  PrintRows(m, i + 1, row.node, Append(lines, row.line))

PrintMatrix(m) == PrintRows(m, 0, 1, <<>>)

----------------------------------------------------------------------------
(* Transpose and the merge sort of the chain *)

\* The slow pointer of SplitList: fast starts one node ahead and takes two
\* steps for each step of slow; indices past len stand for nullptr.
RECURSIVE SplitWalk(_, _, _)
SplitWalk(len, slow, fast) ==
    IF fast > len THEN slow
    ELSE IF fast + 1 > len THEN slow
    ELSE SplitWalk(len, slow + 1, fast + 2)

\* <<first, second>>: the chain torn apart after the slow pointer.
SplitList(chain) ==
    LET slow == SplitWalk(Len(chain), 1, 2)
    IN  <<SubSeq(chain, 1, slow), SubSeq(chain, slow + 1, Len(chain))>>

\* Mutant of MergeLists: the comparison is reversed.
RECURSIVE MergeListsReversed(_, _, _)
MergeListsReversed(m, list1, list2) ==
    IF list1 = <<>> THEN list2
    ELSE IF list2 = <<>> THEN list1
    ELSE LET firstPosition == GetPosition(m, list1[1].row, list1[1].col)
             secondPosition == GetPosition(m, list2[1].row, list2[1].col)
         IN  IF firstPosition >= secondPosition
             THEN <<list1[1]>> \o MergeListsReversed(m, Tail(list1), list2)
             ELSE <<list2[1]>> \o MergeListsReversed(m, list1, Tail(list2))

RECURSIVE MergeLists(_, _, _)
MergeLists(m, list1, list2) ==
    IF list1 = <<>> THEN list2
    ELSE IF list2 = <<>> THEN list1
    ELSE LET firstPosition == GetPosition(m, list1[1].row, list1[1].col)
             secondPosition == GetPosition(m, list2[1].row, list2[1].col)
         IN  IF firstPosition <= secondPosition
             THEN <<list1[1]>> \o MergeLists(m, Tail(list1), list2)
             ELSE <<list2[1]>> \o MergeLists(m, list1, Tail(list2))

RECURSIVE SortByPosition(_, _)
SortByPosition(m, chain) ==
    IF Len(chain) <= 1 THEN chain
    ELSE LET split == SplitList(chain)
         IN  MergeLists(m, SortByPosition(m, split[1]), SortByPosition(m, split[2]))

\* Mutant of SwapRowCol: the nodes keep their coordinates.
SwapRowColSkipped(chain) == chain

\* The first loop of Transpose: std::swap(node->row, node->col) on every node.
SwapRowCol(chain) ==
    [i \in 1..Len(chain) |-> MatrixNode(chain[i].col, chain[i].row, chain[i].value)]

\* Mutant of Transpose: the chain is not sorted again.
TransposeWithoutSort(m) ==
    Return([m EXCEPT !.firstNode = SwapRowCol(m.firstNode),
                     !.rowCount = m.colCount,
                     !.colCount = m.rowCount],
           TZero, FALSE)

Transpose(m) ==
    LET swapped == [m EXCEPT !.firstNode = SwapRowCol(m.firstNode),
                             !.rowCount = m.colCount,
                             !.colCount = m.rowCount]
    IN  Return([swapped EXCEPT !.firstNode = SortByPosition(swapped, swapped.firstNode)],
               TZero, FALSE)

----------------------------------------------------------------------------
(* LinkedList<int> (unnamed/part_000): a doubly linked list.  The nodes the *)
(* list ever allocated form the sequence `heap`; a pointer is an index into *)
(* it, nullptr is Nil and `freed` holds the deleted nodes.  A call that     *)
(* writes through nullptr or into a deleted node has undefined behaviour:   *)
(* it either ends the program (`crashed`) or goes on as if the write had    *)
(* been an ordinary one.  Every method is an operator from the list to the  *)
(* set of its outcomes.                                                     *)

Nil == 0

LinkedListNode(next, prev, value) == [Next |-> next, Prev |-> prev, Value |-> value]

LinkedList ==
    [heap |-> <<>>, freed |-> {}, _first |-> Nil, _last |-> Nil, _count |-> 0,
     crashed |-> FALSE]

ListReturn(l, ret) == [list |-> l, ret |-> ret, threw |-> FALSE]

\* throw std::invalid_argument: the list is as it was.
ListThrow(l) == [list |-> l, ret |-> FALSE, threw |-> TRUE]

\* The program ends inside the call: nothing is returned.
Crash(l) == [list |-> [l EXCEPT !.crashed = TRUE], ret |-> FALSE, threw |-> FALSE]

Count(l) == l._count

\* new LinkedListNode<T>{ nullptr, nullptr, value }: the new node is
\* Len(heap) + 1.
New(l, value) == [l EXCEPT !.heap = Append(@, LinkedListNode(Nil, Nil, value))]

AddFirst(l, value) ==
    LET newNode == Len(l.heap) + 1
        n == New(l, value)
    IN  IF l._first = Nil
        THEN {ListReturn([n EXCEPT !._first = newNode, !._last = newNode,
                                   !._count = @ + 1], FALSE)}
        ELSE {ListReturn([n EXCEPT !.heap[newNode].Next = l._first,
                                   !.heap[l._first].Prev = newNode,
                                   !._first = newNode,
                                   !._count = @ + 1], FALSE)}

\* _last is not reset by Remove, RemoveIf and Sort: it may point to a
\* deleted node, and then `_last->Next = newNode` writes into it.
AddLast(l, value) ==
    LET newNode == Len(l.heap) + 1
        n == New(l, value)
        linked == [n EXCEPT !.heap[l._last].Next = newNode,
                            !.heap[newNode].Prev = l._last,
                            !._last = newNode,
                            !._count = @ + 1]
    IN  IF l._last = Nil
        THEN {ListReturn([n EXCEPT !._first = newNode, !._last = newNode,
                                   !._count = @ + 1], FALSE)}
        ELSE IF l._last \in l.freed
        THEN {Crash(n), ListReturn(linked, FALSE)}
        ELSE {ListReturn(linked, FALSE)}

\* The nodes reached from `node` by Next, in order.
RECURSIVE ChainFrom(_, _)
ChainFrom(l, node) ==
    IF node = Nil THEN <<>> ELSE <<node>> \o ChainFrom(l, l.heap[node].Next)

\* A node pointer is accepted if the walk from _first meets it.
ValidateNode(l, node) ==
    /\ node # Nil
    /\ \E i \in DOMAIN ChainFrom(l, l._first) : ChainFrom(l, l._first)[i] = node

\* For a node other than _last, `node->Next->Prev = newNode` is executed
\* whether or not node->Next is nullptr.
AddAfter(l, node, value) ==
    IF ~ValidateNode(l, node) THEN {ListThrow(l)}
    ELSE IF l._last = node THEN AddLast(l, value)
    ELSE LET newNode == Len(l.heap) + 1
             next == l.heap[node].Next
             n == [New(l, value) EXCEPT !.heap[newNode].Next = next,
                                        !.heap[newNode].Prev = node]
             back == IF next # Nil THEN [n EXCEPT !.heap[next].Prev = newNode] ELSE n
             done == ListReturn([back EXCEPT !.heap[node].Next = newNode,
                                             !._count = @ + 1], FALSE)
         IN  IF next = Nil THEN {Crash(n), done} ELSE {done}

AddBefore(l, node, value) ==
    IF ~ValidateNode(l, node) THEN {ListThrow(l)}
    ELSE IF l._first = node THEN AddFirst(l, value)
    ELSE LET newNode == Len(l.heap) + 1
             prev == l.heap[node].Prev
             n == [New(l, value) EXCEPT !.heap[newNode].Next = node,
                                        !.heap[newNode].Prev = prev]
         IN  {ListReturn([n EXCEPT !.heap[prev].Next = newNode,
                                   !.heap[node].Prev = newNode,
                                   !._count = @ + 1], FALSE)}

\* ClearRecursive deletes the nodes reached from _first.
Clear(l) ==
    {ListReturn([l EXCEPT !.freed = @ \cup {ChainFrom(l, l._first)[i] :
                                               i \in DOMAIN ChainFrom(l, l._first)},
                          !._first = Nil, !._last = Nil, !._count = 0], FALSE)}

\* The body of the match in Remove and RemoveIf: `current` is unlinked and
\* deleted, the count is decremented and true is returned.  For a match
\* that is not the first node, `current->Next->Prev = ...` is executed
\* whether or not current->Next is nullptr.
RemoveNode(l, current) ==
    LET node == l.heap[current]
    IN  IF current = l._first
        THEN LET moved == [l EXCEPT !._first = node.Next]
                 unlinked == IF moved._first # Nil
                             THEN [moved EXCEPT !.heap[moved._first].Prev = Nil]
                             ELSE moved
             IN  {ListReturn([unlinked EXCEPT !.freed = @ \cup {current},
                                              !._count = @ - 1], TRUE)}
        ELSE LET bypassed == [l EXCEPT !.heap[node.Prev].Next = node.Next]
                 unlinked == IF node.Next # Nil
                             THEN [bypassed EXCEPT !.heap[node.Next].Prev = node.Prev]
                             ELSE bypassed
                 done == ListReturn([unlinked EXCEPT !.freed = @ \cup {current},
                                                     !._count = @ - 1], TRUE)
             IN  IF node.Next = Nil THEN {Crash(bypassed), done} ELSE {done}

\* Mutant of RemoveNode: the node is deleted without being unlinked.
RemoveNodeKeepsLinks(l, current) ==
    {ListReturn([l EXCEPT !.freed = @ \cup {current}, !._count = @ - 1], TRUE)}

RECURSIVE RemoveWalk(_, _, _)
RemoveWalk(l, current, value) ==
    IF current = Nil THEN {ListReturn(l, FALSE)}
    ELSE IF l.heap[current].Value = value THEN RemoveNode(l, current)
    ELSE RemoveWalk(l, l.heap[current].Next, value)

Remove(l, value) ==
    IF l._first = Nil THEN {ListReturn(l, FALSE)}
    ELSE RemoveWalk(l, l._first, value)

\* The predicate is the set of the values it accepts.
RECURSIVE RemoveIfWalk(_, _, _)
RemoveIfWalk(l, current, Pred) ==
    IF current = Nil THEN {ListReturn(l, FALSE)}
    ELSE IF l.heap[current].Value \in Pred THEN RemoveNode(l, current)
    ELSE RemoveIfWalk(l, l.heap[current].Next, Pred)

RemoveIf(l, Pred) ==
    IF l._first = Nil THEN {ListReturn(l, FALSE)}
    ELSE RemoveIfWalk(l, l._first, Pred)

\* The comparator handed to Sort: a <= on a key that several values share.
Key(a) == a \div 2

Cmp(a, b) == Key(a) <= Key(b)

\* <<first, second>> of LinkedList::SplitList, on the sequence of nodes.
ListSplitList(nodes) ==
    LET slow == SplitWalk(Len(nodes), 1, 2)
    IN  <<SubSeq(nodes, 1, slow), SubSeq(nodes, slow + 1, Len(nodes))>>

\* Mutant of ListMergeLists: list1 goes first only on a strictly smaller key.
RECURSIVE ListMergeListsStrict(_, _, _)
ListMergeListsStrict(l, list1, list2) ==
    IF list1 = <<>> THEN list2
    ELSE IF list2 = <<>> THEN list1
    ELSE IF ~Cmp(l.heap[list2[1]].Value, l.heap[list1[1]].Value)
         THEN <<list1[1]>> \o ListMergeListsStrict(l, Tail(list1), list2)
         ELSE <<list2[1]>> \o ListMergeListsStrict(l, list1, Tail(list2))

RECURSIVE ListMergeLists(_, _, _)
ListMergeLists(l, list1, list2) ==
    IF list1 = <<>> THEN list2
    ELSE IF list2 = <<>> THEN list1
    ELSE IF Cmp(l.heap[list1[1]].Value, l.heap[list2[1]].Value)
         THEN <<list1[1]>> \o ListMergeLists(l, Tail(list1), list2)
         ELSE <<list2[1]>> \o ListMergeLists(l, list1, Tail(list2))

RECURSIVE MergeSort(_, _)
MergeSort(l, nodes) ==
    IF Len(nodes) <= 1 THEN nodes
    ELSE LET split == ListSplitList(nodes)
         IN  ListMergeLists(l, MergeSort(l, split[1]), MergeSort(l, split[2]))

\* The pointers MergeSort leaves behind: SplitList clears the Prev of each
\* second half, MergeLists sets the Prev of every node it appends, so the
\* nodes are linked both ways in the merged order and the head has no Prev.
Relink(l, nodes) ==
    [l EXCEPT !.heap = [n \in DOMAIN l.heap |->
                           IF \E i \in DOMAIN nodes : nodes[i] = n
                           THEN LET i == CHOOSE i \in DOMAIN nodes : nodes[i] = n
                                IN  LinkedListNode(
                                        IF i < Len(nodes) THEN nodes[i + 1] ELSE Nil,
                                        IF i > 1 THEN nodes[i - 1] ELSE Nil,
                                        l.heap[n].Value)
                           ELSE l.heap[n]],
              !._first = nodes[1]]

\* MergeSort(&_first, Cmp); _last is left as it was.
Sort(l) ==
    LET nodes == ChainFrom(l, l._first)
    IN  IF Len(nodes) <= 1 THEN {ListReturn(l, FALSE)}
        ELSE {ListReturn(Relink(l, MergeSort(l, nodes)), FALSE)}

----------------------------------------------------------------------------
(* Scenario 1: one matrix `mat` built by LLSparseMatrix(rows, cols), then   *)
(* any sequence of calls.  `call` records the last call: its arguments,     *)
(* its outcome and the object before it.                                    *)

Call(op, row, col, val, out, pre) ==
    [op |-> op, row |-> row, col |-> col, val |-> val,
     threw |-> out.threw, ret |-> out.ret, found |-> out.found, pre |-> pre]

NoOperands == LLSparseMatrix(0, 0)

Init ==
    /\ \E rows \in CtorArgs, cols \in CtorArgs :
          /\ mat = LLSparseMatrix(rows, cols)
          /\ call = Call("LLSparseMatrix", rows, cols, TZero, Return(mat, TZero, FALSE), mat)
    /\ mat0 = NoOperands
    /\ mat1 = NoOperands
    /\ resultMat = <<>>
    /\ everSet = {}
    /\ list = LinkedList

StepElementAt ==
    \E row \in Coords, col \in Coords :
        LET out == ElementAt(mat, row, col)
        IN  /\ mat' = out.mat
            /\ call' = Call("ElementAt", row, col, TZero, out, mat)

StepSetElement ==
    \E row \in Coords, col \in Coords, val \in Values :
        LET out == SetElement(mat, row, col, val)
        IN  /\ out.mat.nonZeroElementsCount <= MaxCount
            /\ mat' = out.mat
            /\ call' = Call("SetElement", row, col, val, out, mat)

StepRemoveElement ==
    \E row \in Coords, col \in Coords :
        LET out == RemoveElement(mat, row, col)
        IN  /\ mat' = out.mat
            /\ call' = Call("RemoveElement", row, col, TZero, out, mat)

StepResize ==
    \E rows \in CtorArgs, cols \in CtorArgs :
        LET out == Resize(mat, rows, cols)
        IN  /\ mat' = out.mat
            /\ call' = Call("Resize", rows, cols, TZero, out, mat)

StepTranspose ==
    LET out == Transpose(mat)
    IN  /\ mat' = out.mat
        /\ call' = Call("Transpose", 0, 0, TZero, out, mat)

\* The objects scenario 1 does not use.
NotInScenario1 == <<mat0, mat1, resultMat, everSet, list>>

CallElementAt == StepElementAt /\ UNCHANGED NotInScenario1
CallSetElement == StepSetElement /\ UNCHANGED NotInScenario1
CallRemoveElement == StepRemoveElement /\ UNCHANGED NotInScenario1
CallResize == StepResize /\ UNCHANGED NotInScenario1
CallTranspose == StepTranspose /\ UNCHANGED NotInScenario1

Next ==
    \/ CallElementAt
    \/ CallSetElement
    \/ CallRemoveElement
    \/ CallResize
    \/ CallTranspose

Spec == Init /\ [][Next]_vars

----------------------------------------------------------------------------
(* Scenario 1 without Transpose, remembering in `everSet` the cells on     *)
(* which a SetElement with a non-zero value succeeded.                      *)

Tracked ==
    everSet' = IF call'.op = "SetElement" /\ ~call'.threw /\ call'.val # TZero
               THEN everSet \cup {<<call'.row, call'.col>>}
               ELSE everSet

NotTracked == <<mat0, mat1, resultMat, list>>

TrackElementAt == StepElementAt /\ Tracked /\ UNCHANGED NotTracked
TrackSetElement == StepSetElement /\ Tracked /\ UNCHANGED NotTracked
TrackRemoveElement == StepRemoveElement /\ Tracked /\ UNCHANGED NotTracked
TrackResize == StepResize /\ Tracked /\ UNCHANGED NotTracked

NextSet ==
    \/ TrackElementAt
    \/ TrackSetElement
    \/ TrackRemoveElement
    \/ TrackResize

SpecSet == Init /\ [][NextSet]_vars

----------------------------------------------------------------------------
(* SetElement calls in any order: after the constructor, SetElement is      *)
(* called with non-zero values on cells in bounds, each cell at most once.  *)
(* Here `everSet` holds the calls made so far, as <<<<row, col>>, val>>.    *)

OrderSetElement ==
    /\ \E row \in Coords, col \in Coords, val \in Values \ {TZero} :
          LET out == SetElement(mat, row, col, val)
          IN  /\ InBoundaries(mat, row, col)
              /\ \A x \in everSet : x[1] # <<row, col>>
              /\ mat' = out.mat
              /\ call' = Call("SetElement", row, col, val, out, mat)
              /\ everSet' = everSet \cup {<<<<row, col>>, val>>}
    /\ UNCHANGED <<mat0, mat1, resultMat, list>>

NextOrder == OrderSetElement

SpecOrder == Init /\ [][NextOrder]_vars

----------------------------------------------------------------------------
(* Scenario 1 from `LLSparseMatrix<> mat;`.  The default constructor is     *)
(* defaulted and the members have no initialisers, so the four fields of a  *)
(* default-initialised object are indeterminate: any extents, any count,    *)
(* and a firstNode that is null or leads to something read as a node.       *)

Indeterminate ==
    [rowCount : CtorArgs, colCount : CtorArgs, nonZeroElementsCount : {0, 1},
     firstNode : {<<>>} \cup {<<MatrixNode(row, col, val)>> :
                                 row \in {0}, col \in {0}, val \in Values \ {TZero}}]

InitDefault ==
    /\ mat \in Indeterminate
    /\ call = Call("LLSparseMatrix()", 0, 0, TZero, Return(mat, TZero, FALSE), mat)
    /\ mat0 = NoOperands
    /\ mat1 = NoOperands
    /\ resultMat = <<>>
    /\ everSet = {}
    /\ list = LinkedList

SpecDefault == InitDefault /\ [][Next]_vars

----------------------------------------------------------------------------
(* Multiply *)

\* Mutant of MapAdd: the product is assigned, not accumulated.
MapAssign(map, key, x) ==
    [k \in (DOMAIN map) \cup {key} |-> IF k = key THEN x ELSE map[k]]

\* idxValMap[key] += x; std::map::operator[] value-initialises a missing key.
MapAdd(map, key, x) ==
    [k \in (DOMAIN map) \cup {key} |->
        IF k = key
        THEN (IF key \in DOMAIN map THEN map[key] ELSE TZero) + x
        ELSE map[k]]

\* "Find corresponding row": the first node of other, from index j on, whose
\* row is col; an index past the chain stands for otherPtr == nullptr.
RECURSIVE FindRow(_, _, _)
FindRow(otherChain, j, col) ==
    IF j > Len(otherChain) THEN j
    ELSE IF otherChain[j].row = col THEN j
    ELSE FindRow(otherChain, j + 1, col)

\* "Calculate partial sums": while otherPtr stays in the row thisPtr->col.
RECURSIVE PartialSums(_, _, _, _)
PartialSums(map, thisNode, otherChain, j) ==
    IF j <= Len(otherChain) /\ thisNode.col = otherChain[j].row
    THEN PartialSums(MapAdd(map, <<thisNode.row, otherChain[j].col>>,
                            thisNode.value * otherChain[j].value),
                     thisNode, otherChain, j + 1)
    ELSE map

\* The multiplication loop over the nodes of this, otherPtr reset for each.
RECURSIVE MultiplicationLoop(_, _, _, _)
MultiplicationLoop(map, thisChain, i, otherChain) ==
    IF i > Len(thisChain) THEN map
    ELSE LET j == FindRow(otherChain, 1, thisChain[i].col)
         IN  MultiplicationLoop(
                 IF j > Len(otherChain) THEN map
                 ELSE PartialSums(map, thisChain[i], otherChain, j),
                 thisChain, i + 1, otherChain)

\* std::less<std::pair<int, int>>, the iteration order of idxValMap.
PairLess(a, b) == a[1] < b[1] \/ (a[1] = b[1] /\ a[2] < b[2])

\* for (auto item : idxValMap) result->SetElement(i, j, value);
RECURSIVE FillResult(_, _, _)
FillResult(result, map, keys) ==
    IF keys = {} THEN result
    ELSE LET k == CHOOSE k \in keys : \A o \in keys \ {k} : PairLess(k, o)
         IN  FillResult(SetElement(result, k[1], k[2], map[k]).mat, map, keys \ {k})

\* Outcome of a multiplication: the result (<<>> when none is returned) and
\* both operands afterwards.
MulOutcome(threw, result, this, other) ==
    [threw |-> threw, result |-> result, this |-> this, other |-> other]

\* Mutant of Multiply: the column counts of the operands are compared.
MultiplyComparesColumns(this, other) ==
    IF this.colCount # other.colCount
    THEN [threw |-> TRUE, result |-> <<>>, this |-> this, other |-> other]
    ELSE LET result == LLSparseMatrix(this.rowCount, other.colCount)
         IN  IF this.firstNode = <<>> \/ other.firstNode = <<>>
             THEN [threw |-> FALSE, result |-> <<result>>, this |-> this, other |-> other]
             ELSE LET idxValMap == MultiplicationLoop(<<>>, this.firstNode, 1,
                                                      other.firstNode)
                  IN  [threw |-> FALSE,
                       result |-> <<FillResult(result, idxValMap, DOMAIN idxValMap)>>,
                       this |-> this, other |-> other]

\* The operand is always an object here, so the other == nullptr test of
\* lines 371-374 never fires.
Multiply(this, other) ==
    IF this.colCount # other.rowCount THEN MulOutcome(TRUE, <<>>, this, other)
    ELSE LET result == LLSparseMatrix(this.rowCount, other.colCount)
         IN  IF this.firstNode = <<>> \/ other.firstNode = <<>>
             THEN MulOutcome(FALSE, <<result>>, this, other)
             ELSE LET idxValMap == MultiplicationLoop(<<>>, this.firstNode, 1,
                                                      other.firstNode)
                  IN  MulOutcome(FALSE,
                                 <<FillResult(result, idxValMap, DOMAIN idxValMap)>>,
                                 this, other)

----------------------------------------------------------------------------
(* Multiply_DEPRECATED.  A node pointer is an index into the chain and      *)
(* nullptr is Nil.  The call ends in one of four ways: it threw, it         *)
(* returned, it read through nullptr (the program ends: "crashed"), or the  *)
(* loop came back to a control state it had been in ("diverged": the        *)
(* pointers and isLastRow decide every branch, so it never leaves).         *)

FirstNode(m) == IF m.firstNode = <<>> THEN Nil ELSE 1

NextNode(chain, node) == IF node < Len(chain) THEN node + 1 ELSE Nil

\* while (!(currentRowStart->row < thisItr->row)): thisItr after the loop
\* and whether it set isLastRow.
RECURSIVE SkipRow(_, _, _)
SkipRow(chain, currentRowStart, thisItr) ==
    IF chain[currentRowStart].row < chain[thisItr].row
    THEN [thisItr |-> thisItr, isLastRow |-> FALSE]
    ELSE IF NextNode(chain, thisItr) = Nil
    THEN [thisItr |-> thisItr, isLastRow |-> TRUE]
    ELSE SkipRow(chain, currentRowStart, NextNode(chain, thisItr))

\* The three branches on thisItr->col and otherItr->col: the pointers after
\* them.
MovePointers(a, b, c) ==
    LET t == c.thisItr
        o == c.otherItr
        tn == NextNode(a, t)
        on == NextNode(b, o)
    IN  IF a[t].col = b[o].col
        THEN IF tn = Nil \/ on = Nil \/ a[tn].row = b[on].row
             THEN [c EXCEPT !.thisItr = IF on # Nil /\ b[o].row # b[on].row
                                        THEN c.currentRowStart ELSE tn,
                            !.otherItr = on]
             ELSE IF a[tn].row > b[on].row THEN [c EXCEPT !.otherItr = on]
             ELSE [c EXCEPT !.thisItr = tn]
        ELSE IF a[t].col < b[o].col
        THEN [c EXCEPT !.otherItr = IF tn # Nil /\ a[t].row # a[tn].row THEN on ELSE o,
                       !.thisItr = tn]
        ELSE [c EXCEPT !.thisItr = IF on # Nil /\ b[o].row # b[on].row
                                   THEN c.currentRowStart ELSE t,
                       !.otherItr = on]

\* while (true): a is the chain of this, b the chain of the transposed
\* other, c the pointers and isLastRow at the head of the loop, `seen` the
\* control states the loop has been in.
RECURSIVE DeprecatedLoop(_, _, _, _, _)
DeprecatedLoop(a, b, c, idxValMap, seen) ==
    LET c1 == IF c.thisItr = Nil
              THEN [c EXCEPT !.isLastRow = TRUE, !.thisItr = c.currentRowStart]
              ELSE c
        skip == SkipRow(a, c1.currentRowStart, c1.thisItr)
        c2 == IF c1.otherItr = Nil
              THEN [c1 EXCEPT !.thisItr = skip.thisItr,
                              !.currentRowStart = skip.thisItr,
                              !.otherItr = IF b = <<>> THEN Nil ELSE 1]
              ELSE c1
        c3 == IF a[c2.thisItr].row # a[c2.currentRowStart].row
              THEN [c2 EXCEPT !.thisItr = c2.currentRowStart]
              ELSE c2
        t == c3.thisItr
        o == c3.otherItr
    IN  IF c \in seen THEN [ended |-> "diverged", map |-> idxValMap]
        ELSE IF c.thisItr = Nil /\ (c.otherItr = Nil \/ NextNode(b, c.otherItr) = Nil)
        THEN [ended |-> "returned", map |-> idxValMap]
        ELSE IF c1.otherItr = Nil /\ (c1.currentRowStart = Nil \/ c1.thisItr = Nil)
        THEN [ended |-> "crashed", map |-> idxValMap]
        ELSE IF c1.otherItr = Nil /\ (c1.isLastRow \/ skip.isLastRow)
        THEN [ended |-> "returned", map |-> idxValMap]
        ELSE IF c2.thisItr = Nil \/ c2.currentRowStart = Nil
        THEN [ended |-> "crashed", map |-> idxValMap]
        ELSE IF o = Nil
        THEN [ended |-> "crashed", map |-> idxValMap]
        ELSE DeprecatedLoop(a, b, MovePointers(a, b, c3),
                            IF a[t].col = b[o].col
                            THEN MapAdd(idxValMap, <<a[t].row, b[o].row>>,
                                        a[t].value * b[o].value)
                            ELSE idxValMap,
                            seen \cup {c})

\* Outcome of Multiply_DEPRECATED: how it ended, the result (<<>> when none
\* is returned) and both operands afterwards.
DeprecatedOutcome(ended, result, this, other) ==
    [ended |-> ended, threw |-> ended = "threw", result |-> result,
     this |-> this, other |-> other]

\* Mutant of Multiply_DEPRECATED: other is not transposed back.
Multiply_DEPRECATED_TransposedOnce(this, other) ==
    IF this.colCount # other.rowCount
    THEN DeprecatedOutcome("threw", <<>>, this, other)
    ELSE LET result == LLSparseMatrix(this.rowCount, other.colCount)
             transposed == Transpose(other).mat
             loop == DeprecatedLoop(this.firstNode, transposed.firstNode,
                                    [thisItr |-> FirstNode(this),
                                     otherItr |-> FirstNode(transposed),
                                     currentRowStart |-> FirstNode(this),
                                     isLastRow |-> FALSE],
                                    <<>>, {})
         IN  IF loop.ended = "returned"
             THEN DeprecatedOutcome("returned",
                                    <<FillResult(result, loop.map, DOMAIN loop.map)>>,
                                    this, transposed)
             ELSE DeprecatedOutcome(loop.ended, <<>>, this, transposed)

\* other is transposed before the loop and transposed back after it; a
\* call that does not leave the loop leaves other transposed.
Multiply_DEPRECATED(this, other) ==
    IF this.colCount # other.rowCount
    THEN DeprecatedOutcome("threw", <<>>, this, other)
    ELSE LET result == LLSparseMatrix(this.rowCount, other.colCount)
             transposed == Transpose(other).mat
             loop == DeprecatedLoop(this.firstNode, transposed.firstNode,
                                    [thisItr |-> FirstNode(this),
                                     otherItr |-> FirstNode(transposed),
                                     currentRowStart |-> FirstNode(this),
                                     isLastRow |-> FALSE],
                                    <<>>, {})
         IN  IF loop.ended = "returned"
             THEN DeprecatedOutcome("returned",
                                    <<FillResult(result, loop.map, DOMAIN loop.map)>>,
                                    this, Transpose(transposed).mat)
             ELSE DeprecatedOutcome(loop.ended, <<>>, this, transposed)

----------------------------------------------------------------------------
(* Scenario 2: two operands built by SetElement, then one multiplication *)

MulCall(op, threw, pre) ==
    [op |-> op, row |-> 0, col |-> 0, val |-> TZero,
     threw |-> threw, ret |-> TZero, found |-> FALSE, pre |-> pre]

InitMul ==
    /\ \E m \in MulDims, k \in MulDims, k2 \in MulDims, n \in MulDims :
          /\ mat0 = LLSparseMatrix(m, k)
          /\ mat1 = LLSparseMatrix(k2, n)
    /\ resultMat = <<>>
    /\ mat = NoOperands
    /\ everSet = {}
    /\ list = LinkedList
    /\ call = MulCall("LLSparseMatrix", FALSE, <<mat0, mat1>>)

SetElement0 ==
    /\ call.op = "LLSparseMatrix"
    /\ \E row \in MulCoords, col \in MulCoords, val \in MulValues :
          LET out == SetElement(mat0, row, col, val)
          IN  /\ out.mat.nonZeroElementsCount <= MaxMulCount
              /\ mat0' = out.mat
    /\ UNCHANGED <<mat, call, mat1, resultMat, everSet, list>>

SetElement1 ==
    /\ call.op = "LLSparseMatrix"
    /\ \E row \in MulCoords, col \in MulCoords, val \in MulValues :
          LET out == SetElement(mat1, row, col, val)
          IN  /\ out.mat.nonZeroElementsCount <= MaxMulCount
              /\ mat1' = out.mat
    /\ UNCHANGED <<mat, call, mat0, resultMat, everSet, list>>

CallMultiply ==
    /\ call.op = "LLSparseMatrix"
    /\ LET out == Multiply(mat0, mat1)
       IN  /\ mat0' = out.this
           /\ mat1' = out.other
           /\ resultMat' = out.result
           /\ call' = MulCall("Multiply", out.threw, <<mat0, mat1>>)
    /\ UNCHANGED <<mat, everSet, list>>

DeprecatedCall(out, pre) ==
    [op |-> "Multiply_DEPRECATED", row |-> 0, col |-> 0, val |-> TZero,
     threw |-> out.threw, ret |-> TZero, found |-> FALSE, pre |-> pre,
     ended |-> out.ended]

CallMultiply_DEPRECATED ==
    /\ call.op = "LLSparseMatrix"
    /\ LET out == Multiply_DEPRECATED(mat0, mat1)
       IN  /\ mat0' = out.this
           /\ mat1' = out.other
           /\ resultMat' = out.result
           /\ call' = DeprecatedCall(out, <<mat0, mat1>>)
    /\ UNCHANGED <<mat, everSet, list>>

NextMul ==
    \/ SetElement0
    \/ SetElement1
    \/ CallMultiply
    \/ CallMultiply_DEPRECATED

SpecMul == InitMul /\ [][NextMul]_vars

----------------------------------------------------------------------------
(* The destructor.  `mat` is built by SetElement and RemoveElement and then *)
(* destroyed; the nodes are the indices of its chain.  The call records the *)
(* nodes deleted, in order, and whether a node was read after its delete.   *)

\* The for loop of the destructor: prevNode is deleted, then the loop reads
\* node->nextNode to step.
RECURSIVE DestructorLoop(_, _, _, _, _)
DestructorLoop(chain, prevNode, node, deleted, readFreed) ==
    IF node = Nil THEN [deleted |-> deleted, readFreed |-> readFreed]
    ELSE LET deleted1 == Append(deleted, prevNode)
         IN  DestructorLoop(chain, node, NextNode(chain, node), deleted1,
                            readFreed \/ \E i \in DOMAIN deleted1 : deleted1[i] = node)

Destructor(m) ==
    IF FirstNode(m) = Nil THEN [deleted |-> <<>>, readFreed |-> FALSE]
    ELSE IF NextNode(m.firstNode, FirstNode(m)) = Nil
    THEN [deleted |-> <<FirstNode(m)>>, readFreed |-> FALSE]
    ELSE DestructorLoop(m.firstNode, FirstNode(m), NextNode(m.firstNode, FirstNode(m)),
                        <<>>, FALSE)

Alive == call.op # "~LLSparseMatrix"

AliveSetElement == Alive /\ CallSetElement

AliveRemoveElement == Alive /\ CallRemoveElement

CallDestructor ==
    /\ Alive
    /\ LET out == Destructor(mat)
       IN  call' = [op |-> "~LLSparseMatrix", pre |-> mat,
                    deleted |-> out.deleted, readFreed |-> out.readFreed]
    /\ UNCHANGED <<mat, mat0, mat1, resultMat, everSet, list>>

NextDestroy ==
    \/ AliveSetElement
    \/ AliveRemoveElement
    \/ CallDestructor

SpecDestroy == Init /\ [][NextDestroy]_vars

----------------------------------------------------------------------------
(* Scenario 3: the two sorts and the list.  Either `mat` starts with a      *)
(* chain in arbitrary order, equal positions included, and SortByPosition   *)
(* is applied to it; or `list` is built by AddFirst and AddLast, with       *)
(* Remove, RemoveIf and Sort called in between.  The matrix and the list    *)
(* share no state, so a behaviour exercises one of them.                    *)

MaxAlloc == 3
MaxListValue == 3
MaxChain == 3
SortDim == 2

ListValues == 0..MaxListValue

SortNodes ==
    {MatrixNode(row, col, val) : row \in 0..(SortDim - 1), col \in 0..(SortDim - 1),
                                 val \in Values \ {TZero}}

Chains == UNION {[1..n -> SortNodes] : n \in 0..MaxChain}

ListCall(op, pred, out, pre) ==
    [op |-> op, pred |-> pred, ret |-> out.ret, threw |-> out.threw,
     crashed |-> out.list.crashed, pre |-> pre]

InitList ==
    /\ \E chain \in Chains :
          mat = [LLSparseMatrix(SortDim, SortDim) EXCEPT
                    !.firstNode = chain, !.nonZeroElementsCount = Len(chain)]
    /\ list = LinkedList
    /\ call = ListCall("LinkedList", {}, ListReturn(list, FALSE), list)
    /\ mat0 = NoOperands
    /\ mat1 = NoOperands
    /\ resultMat = <<>>
    /\ everSet = {}

NotTheList == <<mat, mat0, mat1, resultMat, everSet>>

CallSortByPosition ==
    /\ call.op = "LinkedList"
    /\ mat.firstNode # <<>>
    /\ mat' = [mat EXCEPT !.firstNode = SortByPosition(mat, mat.firstNode)]
    /\ call' = [op |-> "SortByPosition", pred |-> {}, ret |-> FALSE,
                threw |-> FALSE, crashed |-> FALSE, pre |-> mat]
    /\ UNCHANGED <<list, mat0, mat1, resultMat, everSet>>

ListInUse == mat.firstNode = <<>> /\ ~list.crashed

CallAddFirst ==
    /\ ListInUse
    /\ Len(list.heap) < MaxAlloc
    /\ \E value \in ListValues : \E out \in AddFirst(list, value) :
          /\ list' = out.list
          /\ call' = ListCall("AddFirst", {value}, out, list)
    /\ UNCHANGED NotTheList

CallAddLast ==
    /\ ListInUse
    /\ Len(list.heap) < MaxAlloc
    /\ \E value \in ListValues : \E out \in AddLast(list, value) :
          /\ list' = out.list
          /\ call' = ListCall("AddLast", {value}, out, list)
    /\ UNCHANGED NotTheList

CallRemove ==
    /\ ListInUse
    /\ \E value \in ListValues : \E out \in Remove(list, value) :
          /\ list' = out.list
          /\ call' = ListCall("Remove", {value}, out, list)
    /\ UNCHANGED NotTheList

CallRemoveIf ==
    /\ ListInUse
    /\ \E Pred \in SUBSET ListValues : \E out \in RemoveIf(list, Pred) :
          /\ list' = out.list
          /\ call' = ListCall("RemoveIf", Pred, out, list)
    /\ UNCHANGED NotTheList

CallSort ==
    /\ ListInUse
    /\ \E out \in Sort(list) :
          /\ list' = out.list
          /\ call' = ListCall("Sort", {}, out, list)
    /\ UNCHANGED NotTheList

CallAddAfter ==
    /\ ListInUse
    /\ Len(list.heap) < MaxAlloc
    /\ \E node \in 0..Len(list.heap), value \in ListValues :
          \E out \in AddAfter(list, node, value) :
             /\ list' = out.list
             /\ call' = ListCall("AddAfter", {value}, out, list)
    /\ UNCHANGED NotTheList

CallAddBefore ==
    /\ ListInUse
    /\ Len(list.heap) < MaxAlloc
    /\ \E node \in 0..Len(list.heap), value \in ListValues :
          \E out \in AddBefore(list, node, value) :
             /\ list' = out.list
             /\ call' = ListCall("AddBefore", {value}, out, list)
    /\ UNCHANGED NotTheList

CallClear ==
    /\ ListInUse
    /\ \E out \in Clear(list) :
          /\ list' = out.list
          /\ call' = ListCall("Clear", {}, out, list)
    /\ UNCHANGED NotTheList

NextList ==
    \/ CallSortByPosition
    \/ CallAddFirst
    \/ CallAddLast
    \/ CallAddAfter
    \/ CallAddBefore
    \/ CallClear
    \/ CallRemove
    \/ CallRemoveIf
    \/ CallSort

SpecList == InitList /\ [][NextList]_vars

----------------------------------------------------------------------------
(* Vocabulary of the properties *)

\* The in-bounds coordinates of a matrix.
CellsOf(m) == (0..(m.rowCount - 1)) \X (0..(m.colCount - 1))

\* What ElementAt returns at an in-bounds coordinate.
ValueAt(m, row, col) == ElementAt(m, row, col).ret

HasNodeAt(m, row, col) ==
    \E i \in 1..Len(m.firstNode) :
        m.firstNode[i].row = row /\ m.firstNode[i].col = col

\* sum over k' in [0, k) of a(i, k') * b(k', j)
RECURSIVE DotProduct(_, _, _, _, _)
DotProduct(a, b, i, j, k) ==
    IF k <= 0 THEN TZero
    ELSE DotProduct(a, b, i, j, k - 1) + ValueAt(a, i, k - 1) * ValueAt(b, k - 1, j)

----------------------------------------------------------------------------
(* Properties of scenario 2 (SpecMul) *)

\* C1: for operands mat0 (m x k) and mat1 (k x n) built by SetElement calls,
\* Multiply succeeds and returns an m x n matrix whose ElementAt(i, j) is the
\* sum over k' of mat0.ElementAt(i, k') * mat1.ElementAt(k', j).
C1_MultiplyIsMatrixProduct ==
    (call.op = "Multiply" /\ call.pre[1].colCount = call.pre[2].rowCount) =>
        /\ ~call.threw
        /\ Len(resultMat) = 1
        /\ GetRowCount(resultMat[1]) = GetRowCount(call.pre[1])
        /\ GetColCount(resultMat[1]) = GetColCount(call.pre[2])
        /\ \A i \in 0..(call.pre[1].rowCount - 1), j \in 0..(call.pre[2].colCount - 1) :
              LET got == ElementAt(resultMat[1], i, j)
              IN  /\ ~got.threw
                  /\ got.ret = DotProduct(call.pre[1], call.pre[2], i, j,
                                          call.pre[1].colCount)

\* C1 witness: a product in which one result cell accumulates two non-zero
\* terms and ends non-zero.
C1_Witness ==
    /\ call.op = "Multiply"
    /\ ~call.threw
    /\ \E i \in MulCoords, j \in MulCoords :
          /\ InBoundaries(resultMat[1], i, j)
          /\ call.pre[1].colCount >= 2
          /\ ValueAt(call.pre[1], i, 0) * ValueAt(call.pre[2], 0, j) # TZero
          /\ ValueAt(call.pre[1], i, 1) * ValueAt(call.pre[2], 1, j) # TZero
          /\ ValueAt(resultMat[1], i, j) # TZero

----------------------------------------------------------------------------
(* Properties of scenario 1 (Spec) *)

\* C2: in every reachable state GetNonZeroElementsCount() is the number of
\* in-bounds coordinates at which ElementAt is not zero.
C2_CountIsNumberOfNonZeroCells ==
    GetNonZeroElementsCount(mat) =
        Cardinality({c \in CellsOf(mat) : ValueAt(mat, c[1], c[2]) # TZero})

\* C3: SetElement(r, c, zero) on an in-bounds cell makes ElementAt(r, c) zero:
\* an existing entry is removed and the count drops by one; without an
\* entry the call changes nothing.
C3_SetZeroRemovesEntry ==
    (call.op = "SetElement" /\ call.val = TZero
        /\ InBoundaries(call.pre, call.row, call.col)) =>
        /\ ~call.threw
        /\ ValueAt(mat, call.row, call.col) = TZero
        /\ ~HasNodeAt(mat, call.row, call.col)
        /\ IF HasNodeAt(call.pre, call.row, call.col)
           THEN GetNonZeroElementsCount(mat) = GetNonZeroElementsCount(call.pre) - 1
           ELSE mat = call.pre

\* C4: SetElement(r, c, v) with v non-zero on an in-bounds cell succeeds and
\* a following ElementAt(r, c) returns v, whether or not the cell held an
\* entry before.
C4_SetThenGet ==
    (call.op = "SetElement" /\ call.val # TZero
        /\ InBoundaries(call.pre, call.row, call.col)) =>
        /\ ~call.threw
        /\ ~ElementAt(mat, call.row, call.col).threw
        /\ ElementAt(mat, call.row, call.col).ret = call.val

\* C4 witness: an overwrite of an entry that held another value, in a chain
\* of several nodes.
C4_Witness ==
    /\ call.op = "SetElement"
    /\ ~call.threw
    /\ call.val # TZero
    /\ HasNodeAt(call.pre, call.row, call.col)
    /\ ValueAt(call.pre, call.row, call.col) # call.val
    /\ Len(call.pre.firstNode) >= 3
    /\ ValueAt(mat, call.row, call.col) = call.val

\* The chain is in non-decreasing position order for the current colCount.
SortedByPosition(m) ==
    \A i \in 1..(Len(m.firstNode) - 1) :
        GetPosition(m, m.firstNode[i].row, m.firstNode[i].col)
            <= GetPosition(m, m.firstNode[i + 1].row, m.firstNode[i + 1].col)

UniqueCoordinates(m) ==
    \A i \in 1..Len(m.firstNode), j \in 1..Len(m.firstNode) :
        (m.firstNode[i].row = m.firstNode[j].row
            /\ m.firstNode[i].col = m.firstNode[j].col) => i = j

ZeroFree(m) ==
    \A i \in 1..Len(m.firstNode) : m.firstNode[i].value # TZero

\* C5: after every completed call the chain is sorted by position (current
\* colCount), holds no two entries at one coordinate and no zero value.
C5_StoreInvariant ==
    SortedByPosition(mat) /\ UniqueCoordinates(mat) /\ ZeroFree(mat)

\* C5 witness: a Transpose that had to reorder a chain of at least three
\* nodes and left it sorted.
C5_Witness ==
    /\ call.op = "Transpose"
    /\ Len(mat.firstNode) >= 3
    /\ mat.firstNode # SwapRowCol(call.pre.firstNode)
    /\ SortedByPosition(mat)

\* C6: after Transpose of an (R, C) matrix the extents are (C, R) and
\* ElementAt(i, j) is the value ElementAt(j, i) had before.
C6_TransposeSwapsCoordinates ==
    (call.op = "Transpose") =>
        /\ ~call.threw
        /\ GetRowCount(mat) = GetColCount(call.pre)
        /\ GetColCount(mat) = GetRowCount(call.pre)
        /\ \A i \in 0..(call.pre.colCount - 1), j \in 0..(call.pre.rowCount - 1) :
              /\ ~ElementAt(mat, i, j).threw
              /\ ElementAt(mat, i, j).ret = ElementAt(call.pre, j, i).ret

\* C6 witness: a Transpose of a non-symmetric matrix with an off-diagonal entry.
C6_Witness ==
    /\ call.op = "Transpose"
    /\ \E c \in CellsOf(mat) :
          /\ c[1] # c[2]
          /\ ValueAt(mat, c[1], c[2]) # TZero
          /\ InBoundaries(mat, c[2], c[1])
          /\ ValueAt(mat, c[2], c[1]) # ValueAt(mat, c[1], c[2])

\* C7: Transpose is an involution: once Transpose has run, running it again
\* restores the extents, every ElementAt value, the non-zero count and the
\* order of the stored entries.
C7_TransposeInvolution ==
    (call.op = "Transpose") =>
        LET again == Transpose(mat).mat
        IN  /\ GetRowCount(again) = GetRowCount(call.pre)
            /\ GetColCount(again) = GetColCount(call.pre)
            /\ \A c \in CellsOf(call.pre) :
                  ElementAt(again, c[1], c[2]) = ElementAt(call.pre, c[1], c[2])
            /\ GetNonZeroElementsCount(again) = GetNonZeroElementsCount(call.pre)
            /\ again.firstNode = call.pre.firstNode

\* C7 witness: a Transpose that changed the order of the chain, and that a
\* second Transpose undoes.
C7_Witness ==
    /\ call.op = "Transpose"
    /\ Len(call.pre.firstNode) >= 2
    /\ mat.firstNode # SwapRowCol(call.pre.firstNode)
    /\ mat # call.pre
    /\ Transpose(mat).mat = call.pre

\* C8: Resize(r2, c2) with r2 < GetRowCount() or c2 < GetColCount() throws
\* and leaves extents, entries and count as they were.
C8_ShrinkingResizeFails ==
    (call.op = "Resize"
        /\ (call.row < GetRowCount(call.pre) \/ call.col < GetColCount(call.pre))) =>
        /\ call.threw
        /\ mat = call.pre

\* C8 witness: a rejected Resize that shrinks one extent only and would lose
\* no stored entry.
C8_Witness ==
    /\ call.op = "Resize"
    /\ call.threw
    /\ call.row >= GetRowCount(call.pre)
    /\ call.col < GetColCount(call.pre)
    /\ call.pre.firstNode # <<>>
    /\ \A i \in 1..Len(call.pre.firstNode) :
          call.pre.firstNode[i].row < call.row /\ call.pre.firstNode[i].col < call.col

\* C9: Resize(r2, c2) with r2 >= GetRowCount() and c2 >= GetColCount()
\* succeeds, sets the extents to (r2, c2), keeps ElementAt at every old
\* coordinate, and every new coordinate reads zero.
C9_GrowingResizeKeepsElements ==
    (call.op = "Resize"
        /\ call.row >= GetRowCount(call.pre) /\ call.col >= GetColCount(call.pre)) =>
        /\ ~call.threw
        /\ GetRowCount(mat) = call.row
        /\ GetColCount(mat) = call.col
        /\ \A c \in CellsOf(call.pre) :
              ElementAt(mat, c[1], c[2]) = Return(mat, ValueAt(call.pre, c[1], c[2]), FALSE)
        /\ \A c \in CellsOf(mat) \ CellsOf(call.pre) :
              ElementAt(mat, c[1], c[2]) = Return(mat, TZero, FALSE)

\* C9 witness: a Resize that grows the column count of a matrix with entries
\* in two rows.
C9_Witness ==
    /\ call.op = "Resize"
    /\ ~call.threw
    /\ GetColCount(mat) > GetColCount(call.pre)
    /\ \E i \in 1..Len(mat.firstNode), j \in 1..Len(mat.firstNode) :
          mat.firstNode[i].row # mat.firstNode[j].row

\* C10: ElementAt, SetElement and RemoveElement with a row or column outside
\* the extents throw, whatever the matrix holds and whatever value is passed,
\* and change nothing.
C10_OutOfBoundsFails ==
    (call.op \in {"ElementAt", "SetElement", "RemoveElement"}
        /\ (call.row < 0 \/ call.row >= GetRowCount(call.pre)
            \/ call.col < 0 \/ call.col >= GetColCount(call.pre))) =>
        /\ call.threw
        /\ mat = call.pre

\* C10 witness: SetElement of zero at a negative row on a matrix with entries.
C10_Witness ==
    /\ call.op = "SetElement"
    /\ call.threw
    /\ call.val = TZero
    /\ call.row < 0
    /\ call.col >= 0 /\ call.col < GetColCount(call.pre)
    /\ mat.firstNode # <<>>

----------------------------------------------------------------------------
(* Further properties of scenario 2 (SpecMul) *)

\* C11: Multiply throws exactly when mat0.GetColCount() # mat1.GetRowCount();
\* when it throws no result is produced and both operands are as before.
C11_MultiplyThrowsIffMismatch ==
    (call.op = "Multiply") =>
        /\ call.threw <=> (GetColCount(call.pre[1]) # GetRowCount(call.pre[2]))
        /\ call.threw => (resultMat = <<>> /\ mat0 = call.pre[1] /\ mat1 = call.pre[2])
        /\ ~call.threw => Len(resultMat) = 1

\* C11 witness: a rejected multiplication of two operands that hold entries.
C11_Witness ==
    /\ call.op = "Multiply"
    /\ call.threw
    /\ mat0.firstNode # <<>>
    /\ mat1.firstNode # <<>>
    /\ GetColCount(mat0) # GetRowCount(mat1)
    /\ resultMat = <<>>

----------------------------------------------------------------------------
(* Further properties of scenario 1 (Spec) *)

\* C12: RemoveElement on an in-bounds cell never throws; an entry there is
\* removed, otherwise nothing changes; afterwards ElementAt of the cell is
\* zero, every other cell and the extents are as before.
C12_RemoveElement ==
    (call.op = "RemoveElement" /\ InBoundaries(call.pre, call.row, call.col)) =>
        /\ ~call.threw
        /\ call.found <=> HasNodeAt(call.pre, call.row, call.col)
        /\ ~call.found => mat = call.pre
        /\ ~HasNodeAt(mat, call.row, call.col)
        /\ ElementAt(mat, call.row, call.col) = Return(mat, TZero, FALSE)
        /\ GetRowCount(mat) = GetRowCount(call.pre)
        /\ GetColCount(mat) = GetColCount(call.pre)
        /\ \A c \in CellsOf(call.pre) \ {<<call.row, call.col>>} :
              ElementAt(mat, c[1], c[2]).ret = ElementAt(call.pre, c[1], c[2]).ret

\* C12 witness: the removal of a node that has nodes before and after it.
C12_Witness ==
    /\ call.op = "RemoveElement"
    /\ call.found
    /\ \E i \in 2..(Len(call.pre.firstNode) - 1) :
          /\ call.pre.firstNode[i].row = call.row
          /\ call.pre.firstNode[i].col = call.col
    /\ Len(mat.firstNode) = Len(call.pre.firstNode) - 1

\* What Print writes is the dense matrix: rowCount lines of colCount values,
\* the value of cell (i, j) being ElementAt(i, j).
PrintIsDense(m) ==
    LET out == PrintMatrix(m)
    IN  /\ Len(out.lines) = GetRowCount(m)
        /\ \A i \in 1..Len(out.lines) :
              /\ Len(out.lines[i]) = GetColCount(m)
              /\ \A j \in 1..Len(out.lines[i]) :
                    out.lines[i][j] = ValueAt(m, i - 1, j - 1)

\* Print consumed the whole chain: every stored entry was written once.
PrintEmitsEveryEntry(m) == PrintMatrix(m).node = Len(m.firstNode) + 1

\* C15: in any reachable state Print writes exactly GetRowCount() lines of
\* GetColCount() values, the value for (i, j) being ElementAt(i, j), and
\* every stored entry is written exactly once.
C15_PrintIsDenseRendering ==
    PrintIsDense(mat) /\ PrintEmitsEveryEntry(mat)

\* C17: in every reachable state rowCount >= 0, colCount >= 0 and every
\* stored entry lies inside the extents.
C17_MatrixInvariant ==
    /\ mat.rowCount >= 0
    /\ mat.colCount >= 0
    /\ \A i \in 1..Len(mat.firstNode) :
          InBoundaries(mat, mat.firstNode[i].row, mat.firstNode[i].col)

\* Row-major position under a given column count.
RowMajor(cols, row, col) == cols * row + col

StrictlySortedUnder(cols, chain) ==
    \A i \in 1..(Len(chain) - 1) :
        RowMajor(cols, chain[i].row, chain[i].col)
            < RowMajor(cols, chain[i + 1].row, chain[i + 1].col)

\* C20: a successful Resize leaves the chain as it was, and the chain, sorted
\* under the old column count, is strictly increasing under the new one; so
\* any following SetElement keeps it strictly increasing and Print writes
\* every stored entry.
C20_ResizeNeedsNoResort ==
    (call.op = "Resize" /\ ~call.threw) =>
        /\ StrictlySortedUnder(GetColCount(call.pre), call.pre.firstNode)
        /\ mat.firstNode = call.pre.firstNode
        /\ StrictlySortedUnder(GetColCount(mat), mat.firstNode)
        /\ \A c \in CellsOf(mat), val \in Values :
              StrictlySortedUnder(GetColCount(mat),
                                  SetElement(mat, c[1], c[2], val).mat.firstNode)
        /\ PrintEmitsEveryEntry(mat)

\* C20 witness: a Resize that grows the column count under entries in two
\* rows, so that the position of the later one changes.
C20_Witness ==
    /\ call.op = "Resize"
    /\ ~call.threw
    /\ GetColCount(mat) > GetColCount(call.pre)
    /\ \E i \in 1..Len(mat.firstNode) :
          /\ mat.firstNode[i].row > 0
          /\ i > 1
          /\ RowMajor(GetColCount(mat), mat.firstNode[i].row, mat.firstNode[i].col)
                # RowMajor(GetColCount(call.pre), mat.firstNode[i].row, mat.firstNode[i].col)

----------------------------------------------------------------------------
(* Properties of scenario 3 (SpecList) *)

\* The values of the list, read from First() along Next.
Contents(l) ==
    LET nodes == ChainFrom(l, l._first)
    IN  [i \in DOMAIN nodes |-> l.heap[nodes[i]].Value]

\* The sequence without its first element in Pred.
RECURSIVE WithoutFirstMatch(_, _)
WithoutFirstMatch(seq, Pred) ==
    IF seq = <<>> THEN <<>>
    ELSE IF Head(seq) \in Pred THEN Tail(seq)
    ELSE <<Head(seq)>> \o WithoutFirstMatch(Tail(seq), Pred)

\* C18: Remove and RemoveIf, for a match at any position (first, middle,
\* last, only element), remove exactly the first matching entry, keep the
\* others in order, decrement Count() by one and return true; without a
\* match the list is unchanged and false is returned.
C18_RemoveFirstMatch ==
    (call.op \in {"Remove", "RemoveIf"}) =>
        LET before == Contents(call.pre)
        IN  IF \E i \in DOMAIN before : before[i] \in call.pred
            THEN /\ ~call.crashed
                 /\ call.ret
                 /\ Contents(list) = WithoutFirstMatch(before, call.pred)
                 /\ Count(list) = Count(call.pre) - 1
            ELSE /\ ~call.crashed
                 /\ ~call.ret
                 /\ list = call.pre

\* The indices of `keys` ordered by key, equal keys in index order.
RECURSIVE StableOrder(_, _, _)
StableOrder(keys, k, maxKey) ==
    IF k > maxKey THEN <<>>
    ELSE SelectSeq([i \in DOMAIN keys |-> i], LAMBDA i : keys[i] = k)
            \o StableOrder(keys, k + 1, maxKey)

\* The elements of seq in non-decreasing key order, elements of equal key
\* in their order in seq.
StablySorted(seq, keys, maxKey) ==
    LET order == StableOrder(keys, 0, maxKey)
    IN  [j \in DOMAIN order |-> seq[order[j]]]

\* C19: SortByPosition and Sort (with a <= comparator) turn a chain into a
\* permutation of its entries in non-decreasing key order in which entries
\* of equal key keep their relative order.
C19_SortIsStable ==
    /\ (call.op = "Sort") =>
          LET before == Contents(call.pre)
          IN  /\ ~call.crashed
              /\ Contents(list)
                    = StablySorted(before, [i \in DOMAIN before |-> Key(before[i])],
                                   Key(MaxListValue))
              /\ Count(list) = Count(call.pre)
    /\ (call.op = "SortByPosition") =>
          LET before == call.pre.firstNode
          IN  mat.firstNode
                 = StablySorted(before,
                                [i \in DOMAIN before |->
                                    RowMajor(SortDim, before[i].row, before[i].col)],
                                SortDim * SortDim)

\* C19 witness: a Sort that moved entries although two different values
\* of one key were in the list.
C19_Witness ==
    /\ call.op = "Sort"
    /\ LET before == Contents(call.pre)
       IN  /\ \E i, j \in DOMAIN before :
                 i < j /\ before[i] > before[j] /\ Key(before[i]) = Key(before[j])
           /\ \E i, j \in DOMAIN before : i < j /\ Key(before[i]) > Key(before[j])
           /\ Contents(list) # before

----------------------------------------------------------------------------
(* Properties of the tracked scenario (SpecSet) *)

\* C16: a cell in bounds on which no SetElement with a non-zero value ever
\* succeeded reads zero, whatever SetElement, RemoveElement and Resize did
\* elsewhere; and ElementAt changes nothing.
C16_NeverSetReadsZero ==
    /\ \A c \in CellsOf(mat) \ everSet :
          /\ ~ElementAt(mat, c[1], c[2]).threw
          /\ ElementAt(mat, c[1], c[2]).ret = TZero
    /\ \A row \in Coords, col \in Coords : ElementAt(mat, row, col).mat = mat
    /\ (call.op = "ElementAt") => mat = call.pre

\* C16 witness: ElementAt returned zero for a never-set cell of a matrix
\* that holds entries in the same row and was resized.
C16_Witness ==
    /\ call.op = "ElementAt"
    /\ ~call.threw
    /\ call.ret = TZero
    /\ <<call.row, call.col>> \in CellsOf(mat) \ everSet
    /\ \E i \in 1..Len(mat.firstNode) : mat.firstNode[i].row = call.row
    /\ \E c \in everSet : ~HasNodeAt(mat, c[1], c[2])

----------------------------------------------------------------------------
(* Properties of the default-constructed matrix (SpecDefault) *)

\* C13: a default-constructed matrix is the empty 0 x 0 matrix: the extents
\* and the count are 0, the store is empty, ElementAt, SetElement and
\* RemoveElement fail on every coordinate and Resize(r, c) succeeds for all
\* r, c >= 0.
C13_DefaultIsEmpty ==
    (call.op = "LLSparseMatrix()") =>
        /\ GetRowCount(mat) = 0
        /\ GetColCount(mat) = 0
        /\ GetNonZeroElementsCount(mat) = 0
        /\ mat.firstNode = <<>>
        /\ \A row \in Coords, col \in Coords :
              /\ ElementAt(mat, row, col).threw
              /\ RemoveElement(mat, row, col).threw
              /\ \A val \in Values : SetElement(mat, row, col, val).threw
        /\ \A rows \in 0..MaxDim, cols \in 0..MaxDim : ~Resize(mat, rows, cols).threw

----------------------------------------------------------------------------
(* Properties of the two multiplications (SpecMul) *)

----------------------------------------------------------------------------
(* Order of the SetElement calls (SpecOrder) *)

\* One order in which the calls of the set T can be made.
RECURSIVE SomeOrder(_)
SomeOrder(T) ==
    IF T = {} THEN <<>>
    ELSE LET x == CHOOSE x \in T : TRUE
         IN  <<x>> \o SomeOrder(T \ {x})

\* The matrix after SetElement was called with p[1], p[2], ... in turn.
RECURSIVE SetAll(_, _)
SetAll(m, p) ==
    IF p = <<>> THEN m
    ELSE SetAll(SetElement(m, p[1][1][1], p[1][1][2], p[1][2]).mat, Tail(p))

\* C21: SetElement calls on pairwise distinct in-bounds cells with non-zero
\* values give the same matrix (same chain in the same order, same count)
\* in whatever order they are made: the matrix reached is the one that one
\* fixed order of the calls made so far gives.
C21_SetElementOrderIndependent ==
    mat = SetAll(LLSparseMatrix(GetRowCount(mat), GetColCount(mat)),
                 SomeOrder(everSet))

\* C21 witness: the third call has put its node in front of the two nodes
\* set before it.
C21_Witness ==
    /\ call.op = "SetElement"
    /\ Cardinality(everSet) = 3
    /\ Len(mat.firstNode) = 3
    /\ mat.firstNode[1].row = call.row
    /\ mat.firstNode[1].col = call.col
    /\ call.pre.firstNode = Tail(mat.firstNode)

----------------------------------------------------------------------------
(* Zero sums and the deprecated multiplication (SpecMul) *)

\* The cells of the product of a and b whose value is not zero.
NonZeroCells(a, b) ==
    {c \in (0..(a.rowCount - 1)) \X (0..(b.colCount - 1)) :
        DotProduct(a, b, c[1], c[2], a.colCount) # TZero}

\* C22: the result of Multiply stores no entry where the accumulated
\* products are zero, its GetNonZeroElementsCount() is the number of
\* non-zero cells of the product, and with an operand without entries it is
\* the m x n matrix without entries.
C22_ZeroSumsSuppressed ==
    (call.op = "Multiply" /\ ~call.threw) =>
        LET a == call.pre[1]
            b == call.pre[2]
            result == resultMat[1]
        IN  /\ \A i \in 1..Len(result.firstNode) :
                  <<result.firstNode[i].row, result.firstNode[i].col>>
                      \in NonZeroCells(a, b)
            /\ ZeroFree(result)
            /\ GetNonZeroElementsCount(result) = Cardinality(NonZeroCells(a, b))
            /\ (a.firstNode = <<>> \/ b.firstNode = <<>>) =>
                  result = LLSparseMatrix(GetRowCount(a), GetColCount(b))

\* C22 witness: two non-zero products cancelled in one cell of a result
\* that holds an entry elsewhere.
C22_Witness ==
    /\ call.op = "Multiply"
    /\ ~call.threw
    /\ resultMat[1].firstNode # <<>>
    /\ \E i \in MulCoords, j \in MulCoords :
          /\ InBoundaries(resultMat[1], i, j)
          /\ call.pre[1].colCount >= 2
          /\ ValueAt(call.pre[1], i, 0) * ValueAt(call.pre[2], 0, j) # TZero
          /\ ValueAt(call.pre[1], i, 1) * ValueAt(call.pre[2], 1, j) # TZero
          /\ ~HasNodeAt(resultMat[1], i, j)

\* C23: for dimension-compatible operands Multiply_DEPRECATED terminates
\* and returns a matrix with the extents and the ElementAt values of the
\* result of Multiply.
C23_DeprecatedAgreesWithMultiply ==
    (/\ call.op = "Multiply_DEPRECATED"
     /\ GetColCount(call.pre[1]) = GetRowCount(call.pre[2])) =>
        /\ call.ended = "returned"
        /\ Len(resultMat) = 1
        /\ LET expected == Multiply(call.pre[1], call.pre[2]).result[1]
           IN  /\ GetRowCount(resultMat[1]) = GetRowCount(expected)
               /\ GetColCount(resultMat[1]) = GetColCount(expected)
               /\ \A c \in CellsOf(expected) :
                     ElementAt(resultMat[1], c[1], c[2]) = ElementAt(expected, c[1], c[2])

----------------------------------------------------------------------------
(* The end pointers of the list (SpecList) *)

\* C24: after any sequence of AddFirst, AddLast, AddAfter, AddBefore,
\* Remove, RemoveIf, Sort and Clear, First() is the head of the chain with
\* Prev = null and Last() is the node reached from First() by Next (both
\* null for the empty list), so that AddLast appends after the final
\* element.
C24_EndPointers ==
    ~list.crashed =>
        LET chain == ChainFrom(list, list._first)
        IN  /\ IF chain = <<>>
               THEN list._first = Nil /\ list._last = Nil
               ELSE /\ list.heap[list._first].Prev = Nil
                    /\ list._last = chain[Len(chain)]
            /\ \A value \in ListValues : \A out \in AddLast(list, value) :
                  /\ ~out.list.crashed
                  /\ Contents(out.list) = Append(Contents(list), value)

----------------------------------------------------------------------------
(* The destructor (SpecDestroy) *)

\* C25: the destructor deletes every node of the chain exactly once, for a
\* chain of any length, and reads no node after its delete.
C25_DestructorReleasesEveryNode ==
    (call.op = "~LLSparseMatrix") =>
        /\ \A node \in 1..Len(call.pre.firstNode) :
              Cardinality({i \in DOMAIN call.deleted : call.deleted[i] = node}) = 1
        /\ ~call.readFreed

====
